---- MODULE Spec2Model ----
(***************************************************************************)
(* Ticket service (express + sqlite3): create, list, get, validate,        *)
(* redeem, delete over one table `tickets`.  The repository holds two      *)
(* implementations of the same routes, src/index.js ("root") and           *)
(* src/server/index.js ("server"); `impl` says which one is running.       *)
(*                                                                         *)
(* A request is handled in steps, as node runs it: the synchronous part of *)
(* the route handler (validation, db.run/db.get/db.all issued), then the   *)
(* statement executing atomically inside SQLite, then the callback that    *)
(* sends the response.  Steps of different requests interleave freely.     *)
(***************************************************************************)
EXTENDS Integers, Sequences, FiniteSets, TLC

\* ---------------------------------------------------------------- bounds
MaxClock == 1        \* the wall clock takes the values 0..MaxClock
MaxRequests == 3     \* requests the callers send in one run

\* ------------------------------------------------------------- constants
Impls   == {"root", "server"}
Callers == {"c1", "c2"}                 \* each has at most one request in flight
Ids     == {"a", "b"}                   \* the values uuidv4() can return
Missing == "undefined"                  \* a field absent from the JSON body
Null    == "NULL"                       \* SQL NULL
Valido   == "Valido"                    \* 'Válido'
Canjeado == "Canjeado"                  \* 'Canjeado'

\* the JSON bodies POST /api/tickets is tried with
Body(bn, be, en) == [buyer_name |-> bn, buyer_email |-> be, event_name |-> en]
CreateBodies ==
  { Body("Ana", "ana@example.com", "Concert"),
    Body(Missing, "ana@example.com", "Concert"),
    Body("", Missing, "Concert"),
    Body("Ana", "ana@example.com", Missing),
    Body("Ana", Missing, ""),
    Body("", "ana@example.com", "") }
\* the ticket_id values POST /api/tickets/validate and /redeem are tried with
IdInputs == {Missing, ""} \cup Ids

VARIABLES
  impl,        \* which implementation is deployed
  tickets,     \* the table: sequence of rows in rowid order
  clock,       \* wall clock (CURRENT_TIMESTAMP, moment())
  reqs,        \* per caller: the request in flight and where it stands
  life,        \* history: per id, "none" | "fresh" | "redeemed" (current row's life)
  everDeleted, \* history: per id, a DELETE has removed a row with that id
  issued,      \* history: the ids that a 200 Create response has carried
  sent,        \* history: number of requests sent so far
  race         \* history: "none" | "clean" | "spoiled", see Start

vars == <<impl, tickets, clock, reqs, life, everDeleted, issued, sent, race>>

\* -------------------------------------------------------- JS / SQL helpers
\* JavaScript `!v` on a JSON string field or an absent field
Falsy(v) == v = Missing \/ v = ""

\* node-sqlite3 binds an undefined parameter as NULL
Bind(v) == IF v = Missing THEN Null ELSE v

\* qrcode.toDataURL(id): a data URL determined by the text encoded
toDataURL(id) == <<"data:image/png;base64", id>>

\* CURRENT_TIMESTAMP: UTC, 'YYYY-MM-DD HH:MM:SS'
CurrentTimestamp(now) == [at |-> now, zone |-> "UTC", format |-> "YYYY-MM-DD HH:MM:SS"]

\* moment().format(), moment().format('YYYY-MM-DD HH:mm:ss'): local time
MomentFormat(i, now) ==
  IF i = "root"
  THEN [at |-> now, zone |-> "local", format |-> "YYYY-MM-DDTHH:mm:ssZ"]
  ELSE [at |-> now, zone |-> "local", format |-> "YYYY-MM-DD HH:mm:ss"]


\* ------------------------------------------------------------ the table
\* CREATE TABLE tickets: one row
Row(id, bn, be, en, now, qr) ==
  [id |-> id, buyer_name |-> bn, buyer_email |-> be, event_name |-> en,
   created_at |-> CurrentTimestamp(now), status |-> Valido, qr_code |-> qr]

\* what a statement hands to its callback, and the table it leaves
Result(err, changes, rows, tbl) ==
  [err |-> err, changes |-> changes, rows |-> rows, table |-> tbl]

\* faulty variant: id is not declared PRIMARY KEY
InsertViolates_NoPrimaryKey(i, tbl, id, bn, en, qr) ==
  \/ bn = Null
  \/ en = Null
  \/ i = "server" /\ \E k \in 1..Len(tbl) : tbl[k].qr_code = qr

\* the constraints of CREATE TABLE tickets that an INSERT can break:
\* id PRIMARY KEY, buyer_name/event_name NOT NULL, and (server) qr_code UNIQUE
InsertViolates(i, tbl, id, bn, en, qr) ==
  \/ \E k \in 1..Len(tbl) : tbl[k].id = id
  \/ bn = Null
  \/ en = Null
  \/ i = "server" /\ \E k \in 1..Len(tbl) : tbl[k].qr_code = qr

\* INSERT INTO tickets (id, buyer_name, buyer_email, event_name, qr_code) VALUES (?,?,?,?,?)
InsertStmt(i, tbl, id, bn, be, en, qr, now) ==
  IF InsertViolates(i, tbl, id, Bind(bn), Bind(en), qr)
  THEN Result(TRUE, 0, <<>>, tbl)
  ELSE Result(FALSE, 1, <<>>, Append(tbl, Row(id, Bind(bn), Bind(be), Bind(en), now, qr)))

\* faulty variant: the UPDATE loses its `id = ?` condition
RedeemWhere_AnyId(i, row, id) == row.status = Valido

\* the WHERE clause of the redeem UPDATE:
\*   root:   WHERE id = ? AND status = "Válido"
\*   server: WHERE id = ?
RedeemWhere(i, row, id) ==
  IF i = "root" THEN row.id = id /\ row.status = Valido ELSE row.id = id

\* faulty variant: the UPDATE also sets created_at (SET status = ..., created_at = 0)
UpdateStmt_TouchesCreatedAt(i, tbl, id) ==
  LET hit == {k \in 1..Len(tbl) : RedeemWhere(i, tbl[k], id)}
  IN  Result(FALSE, Cardinality(hit), <<>>,
             [k \in 1..Len(tbl) |->
                IF k \in hit
                THEN [tbl[k] EXCEPT !.status = Canjeado, !.created_at = CurrentTimestamp(MaxClock + 1)]
                ELSE tbl[k]])

\* UPDATE tickets SET status = 'Canjeado' WHERE ...; changes = rows matched
UpdateStmt(i, tbl, id) ==
  LET hit == {k \in 1..Len(tbl) : RedeemWhere(i, tbl[k], id)}
  IN  Result(FALSE, Cardinality(hit), <<>>,
             [k \in 1..Len(tbl) |->
                IF k \in hit THEN [tbl[k] EXCEPT !.status = Canjeado] ELSE tbl[k]])

\* the WHERE clause of DELETE and of the single-row SELECTs: WHERE id = ?
IdWhere(row, id) == row.id = id

\* faulty variant: the DELETE loses its WHERE clause
DeleteStmt_NoWhere(tbl, id) == Result(FALSE, Len(tbl), <<>>, <<>>)

\* DELETE FROM tickets WHERE id = ?
DeleteStmt(tbl, id) ==
  LET Keep(row) == ~IdWhere(row, id)
      Hit(row)  == IdWhere(row, id)
  IN  Result(FALSE, Len(SelectSeq(tbl, Hit)), <<>>, SelectSeq(tbl, Keep))

\* faulty variant: the SELECT removes the rows it returns
SelectStmt_Consumes(tbl, id) ==
  LET Hit(row)  == IdWhere(row, id)
      Keep(row) == ~IdWhere(row, id)
  IN  Result(FALSE, 0, SelectSeq(tbl, Hit), SelectSeq(tbl, Keep))

\* SELECT * FROM tickets WHERE id = ?
SelectStmt(tbl, id) ==
  LET Hit(row) == IdWhere(row, id)
  IN  Result(FALSE, 0, SelectSeq(tbl, Hit), tbl)

\* ORDER BY created_at DESC: insert a row into a sequence that is already ordered
RECURSIVE InsertDesc(_, _)
InsertDesc(sorted, row) ==
  IF sorted = <<>> THEN <<row>>
  ELSE IF Head(sorted).created_at.at >= row.created_at.at
       THEN <<Head(sorted)>> \o InsertDesc(Tail(sorted), row)
       ELSE <<row>> \o sorted

RECURSIVE OrderByCreatedAtDesc(_)
OrderByCreatedAtDesc(rows) ==
  IF rows = <<>> THEN <<>>
  ELSE InsertDesc(OrderByCreatedAtDesc(SubSeq(rows, 1, Len(rows) - 1)), rows[Len(rows)])

\* faulty variant: the SELECT loses its ORDER BY and returns the rows in rowid order
SelectAllStmt_Unordered(tbl) == Result(FALSE, 0, tbl, tbl)

\* SELECT * FROM tickets ORDER BY created_at DESC
SelectAllStmt(tbl) == Result(FALSE, 0, OrderByCreatedAtDesc(tbl), tbl)

\* a statement that SQLite could not run (I/O error, busy, ...): err set, table as it was
StoreError(tbl) == Result(TRUE, 0, <<>>, tbl)

\* db.get hands the callback the first row, or undefined: `!row`
NoRow(res) == res.rows = <<>>
FirstRow(res) == res.rows[1]

\* ------------------------------------------------------------ responses
Response(status, body) == [status |-> status, body |-> body]
Error(status, msg) == Response(status, [error |-> msg])
NoResponse == Response(0, [error |-> "no response yet"])

\* faulty variant: the validation asks for both fields to be missing
CreateRejects_BothMissing(bn, en) == Falsy(bn) /\ Falsy(en)

\* POST /api/tickets: the validation of the required fields
CreateRejects(bn, en) == Falsy(bn) \/ Falsy(en)

CreateInvalid(i) ==
  IF i = "root"
  THEN Error(400, "Nombre del comprador y evento son requeridos")
  ELSE Error(400, "Nombre del comprador y nombre del evento son requeridos")

\* faulty variant: the catch block logs the error and sends nothing
CreateCaught_Silent == NoResponse

\* POST /api/tickets: the catch block (qrcode.toDataURL rejected)
CreateCaught == Error(500, "Error interno del servidor")

\* faulty variant: the callback answers with the ticket whatever the INSERT did
CreateResponse_IgnoresErr(i, res, id, args, qr, now) ==
  Response(200,
    [id |-> id, buyer_name |-> args.buyer_name, buyer_email |-> args.buyer_email,
     event_name |-> args.event_name, status |-> Valido,
     created_at |-> MomentFormat(i, now), qr_code |-> qr])

\* POST /api/tickets: the callback of the INSERT
CreateResponse(i, res, id, args, qr, now) ==
  IF res.err
  THEN Error(500, IF i = "root" THEN "Error creando el ticket" ELSE "Error al crear el ticket")
  ELSE Response(200,
         [id |-> id, buyer_name |-> args.buyer_name, buyer_email |-> args.buyer_email,
          event_name |-> args.event_name, status |-> Valido,
          created_at |-> MomentFormat(i, now), qr_code |-> qr])

\* GET /api/tickets: the callback of db.all
ListResponse(i, res) ==
  IF res.err
  THEN Error(500, IF i = "root" THEN "Error obteniendo tickets" ELSE "Error al obtener tickets")
  ELSE Response(200, res.rows)

\* GET /api/tickets/:id: the callback of db.get
GetResponse(i, res) ==
  IF res.err
  THEN Error(500, IF i = "root" THEN "Error obteniendo ticket" ELSE "Error al obtener ticket")
  ELSE IF NoRow(res) THEN Error(404, "Ticket no encontrado")
  ELSE Response(200, FirstRow(res))

\* POST /api/tickets/validate and /redeem: the validation of ticket_id
IdRejects(ticket_id) == Falsy(ticket_id)
IdInvalid == Error(400, "ID del ticket es requerido")

\* faulty variant: the callback compares the status with the wrong text
ValidateResponse_WrongStatusText(i, res) ==
  IF res.err THEN Error(500, "Error validando ticket")
  ELSE IF NoRow(res) THEN Response(200, [valid |-> FALSE, message |-> "Ticket no encontrado"])
  ELSE IF FirstRow(res).status = "Redeemed"
  THEN Response(200, [valid |-> FALSE, message |-> "Ticket ya fue canjeado",
                      ticket |-> FirstRow(res)])
  ELSE Response(200, [valid |-> TRUE, message |-> "Ticket valido", ticket |-> FirstRow(res)])

\* POST /api/tickets/validate: the callback of db.get
ValidateResponse(i, res) ==
  LET row == FirstRow(res) IN
  IF res.err
  THEN Error(500, IF i = "root" THEN "Error validando ticket" ELSE "Error al validar ticket")
  ELSE IF NoRow(res)
  THEN Response(200, [valid |-> FALSE, message |-> "Ticket no encontrado"])
  ELSE IF row.status = Canjeado
  THEN IF i = "root"
       THEN Response(200, [valid |-> FALSE, message |-> "Ticket ya fue canjeado", ticket |-> row])
       ELSE Response(200, [valid |-> FALSE, already_redeemed |-> TRUE,
                           message |-> "Ticket ya fue canjeado"])
  ELSE Response(200, [valid |-> TRUE, message |-> "Ticket valido", ticket |-> row])

\* faulty variant: the callback does not look at this.changes
RedeemResponse_IgnoresChanges(i, res) ==
  IF res.err
  THEN Error(500, IF i = "root" THEN "Error canjeando ticket" ELSE "Error al canjear ticket")
  ELSE Response(200, [message |-> "Ticket canjeado exitosamente"])

\* POST /api/tickets/redeem: the callback of the UPDATE
RedeemResponse(i, res) ==
  IF res.err
  THEN Error(500, IF i = "root" THEN "Error canjeando ticket" ELSE "Error al canjear ticket")
  ELSE IF res.changes = 0
  THEN IF i = "root" THEN Error(400, "Ticket no encontrado o ya fue canjeado")
                     ELSE Error(404, "Ticket no encontrado")
  ELSE IF i = "root"
  THEN Response(200, [message |-> "Ticket canjeado exitosamente"])
  ELSE Response(200, [success |-> TRUE, message |-> "Ticket canjeado exitosamente!"])

\* DELETE /api/tickets/:id: the callback of the DELETE
DeleteResponse(i, res) ==
  IF res.err
  THEN Error(500, IF i = "root" THEN "Error eliminando ticket" ELSE "Error al eliminar ticket")
  ELSE IF res.changes = 0 THEN Error(404, "Ticket no encontrado")
  ELSE IF i = "root"
  THEN Response(200, [message |-> "Ticket eliminado exitosamente"])
  ELSE Response(200, [success |-> TRUE, message |-> "Ticket eliminado exitosamente"])

\* ------------------------------------------------------------- requests
NoResult == [err |-> FALSE, changes |-> 0, rows |-> <<>>]

\* history kept with a request: what its statement met and did when it ran
NoSeen == [status |-> "absent", after |-> "absent", rows |-> <<>>,
           life |-> "none", deleted |-> FALSE,
           delta |-> 0, same |-> TRUE, others_same |-> TRUE, reissued |-> FALSE]

Idle == [op |-> "none", pc |-> "idle", args |-> [none |-> TRUE], id |-> Missing, qr |-> <<>>,
         res |-> NoResult, resp |-> NoResponse, seen |-> NoSeen,
         qr_calls |-> 0, stmts |-> 0, vouched |-> FALSE]

RowsOf(tbl, id) == LET Hit(row) == row.id = id IN SelectSeq(tbl, Hit)
RowsNotOf(tbl, id) == LET Miss(row) == row.id # id IN SelectSeq(tbl, Miss)

\* the part of a statement's result the callback receives (err, this.changes, rows)
Handed(R) == [err |-> R.err, changes |-> R.changes, rows |-> R.rows]

\* the status stored under id: "absent" when no row has it
StatusOf(tbl, id) == IF RowsOf(tbl, id) = <<>> THEN "absent" ELSE RowsOf(tbl, id)[1].status

Seen(id, R) ==
  [status |-> StatusOf(tickets, id), after |-> StatusOf(R.table, id), rows |-> R.rows,
   life |-> life[id], deleted |-> everDeleted[id],
   delta |-> Len(R.table) - Len(tickets), same |-> R.table = tickets,
   others_same |-> RowsNotOf(R.table, id) = RowsNotOf(tickets, id),
   reissued |-> FALSE]

\* history kept with a Redeem: the request caller c had answered just before it was
\* a Validate of the same ticket_id that said valid = true
Vouched(c, tid) ==
  /\ reqs[c].op = "validate" /\ reqs[c].pc = "done" /\ reqs[c].id = tid
  /\ reqs[c].resp.status = 200 /\ reqs[c].resp.body.valid = TRUE

\* the request of caller c moves on
Move(c, r) == reqs' = [reqs EXCEPT ![c] = r]

InFlight(c) == reqs[c].pc \notin {"idle", "done"}

\* caller c sends request r.  History of the requests now held by the callers:
\* "clean" when they name one ticket id and were in flight at the same time, with
\* no other request sent while either was in flight; "spoiled" once a further
\* request is sent into such a flight; "none" when r meets nothing in flight.
Start(c, r) ==
  LET busy == \E d \in Callers \ {c} : InFlight(d)
      same == \E d \in Callers \ {c} :
                InFlight(d) /\ r.pc # "done" /\ r.id # Missing /\ reqs[d].id = r.id
  IN  /\ reqs' = [reqs EXCEPT ![c] = r]
      /\ race' = IF ~busy THEN "none"
                 ELSE IF race # "none" THEN "spoiled"
                 ELSE IF same THEN "clean" ELSE "none"

\* tickets.db outlives the process (CREATE TABLE IF NOT EXISTS): the service starts
\* on an empty table or on one an earlier run left, here with one valid ticket
InitTables ==
  { <<>>, <<Row("a", "Ana", "ana@example.com", "Concert", 0, toDataURL("a"))>> }

Init ==
  /\ impl \in Impls
  /\ tickets \in InitTables
  /\ clock = 0
  /\ reqs = [c \in Callers |-> Idle]
  /\ life = [id \in Ids |-> IF RowsOf(tickets, id) = <<>> THEN "none" ELSE "fresh"]
  /\ everDeleted = [id \in Ids |-> FALSE]
  /\ issued = {id \in Ids : RowsOf(tickets, id) # <<>>}
  /\ sent = 0
  /\ race = "none"

\* time passes.  Only the INSERT (CURRENT_TIMESTAMP) and the Create callback
\* (moment()) read the clock, so time is let pass where a read is pending.
ClockReadPending == \E c \in Callers : reqs[c].op = "create" /\ reqs[c].pc \in {"stmt", "cb"}

Tick ==
  /\ clock < MaxClock
  /\ ClockReadPending
  /\ clock' = clock + 1
  /\ UNCHANGED <<impl, tickets, reqs, life, everDeleted, issued, sent, race>>

\* caller c has no request in flight: none sent yet, or the last one answered
Ready(c) == reqs[c].pc \in {"idle", "done"}

\* ---- POST /api/tickets
\* the handler up to `await qrcode.toDataURL(id)`
Create(c) ==
  /\ Ready(c)
  /\ sent < MaxRequests
  /\ sent' = sent + 1
  /\ \E args \in CreateBodies :
       LET r == [Idle EXCEPT !.op = "create", !.args = args]
       IN  IF CreateRejects(args.buyer_name, args.event_name)
           THEN Start(c, [r EXCEPT !.pc = "done", !.resp = CreateInvalid(impl)])
           ELSE \E id \in Ids :     \* uuidv4()
                  Start(c, [r EXCEPT !.pc = "qr", !.id = id, !.qr_calls = 1])
  /\ UNCHANGED <<impl, tickets, clock, life, everDeleted, issued>>

\* toDataURL resolved: the handler resumes and issues the INSERT
QrResolve(c) ==
  /\ reqs[c].pc = "qr"
  /\ Move(c, [reqs[c] EXCEPT !.pc = "stmt", !.qr = toDataURL(reqs[c].id), !.stmts = 1])
  /\ UNCHANGED <<impl, tickets, clock, life, everDeleted, issued, sent, race>>

\* toDataURL rejected: the catch block answers
QrReject(c) ==
  /\ reqs[c].pc = "qr"
  /\ Move(c, [reqs[c] EXCEPT !.pc = "done", !.resp = CreateCaught])
  /\ UNCHANGED <<impl, tickets, clock, life, everDeleted, issued, sent, race>>

\* SQLite runs the INSERT
RunInsert(c, fails) ==
  LET r == reqs[c] IN
  /\ r.op = "create" /\ r.pc = "stmt"
  /\ LET R == IF fails THEN StoreError(tickets)
                ELSE InsertStmt(impl, tickets, r.id, r.args.buyer_name, r.args.buyer_email,
                                r.args.event_name, r.qr, clock)
       IN  /\ tickets' = R.table
           /\ Move(c, [r EXCEPT !.pc = "cb", !.res = Handed(R), 
                                !.seen = IF fails THEN NoSeen ELSE Seen(r.id, R)])
           /\ life' = IF R.err THEN life ELSE [life EXCEPT ![r.id] = "fresh"]
  /\ UNCHANGED <<impl, clock, everDeleted, issued, sent, race>>

\* the INSERT's callback sends the response
CreateCallback(c) ==
  LET r == reqs[c]
      resp == CreateResponse(impl, r.res, r.id, r.args, r.qr, clock)
  IN
  /\ r.op = "create" /\ r.pc = "cb"
  /\ Move(c, [r EXCEPT !.pc = "done", !.resp = resp,
                       !.seen.reissued = resp.status = 200 /\ resp.body.id \in issued])
  /\ issued' = IF resp.status = 200 THEN issued \cup {resp.body.id} ELSE issued
  /\ UNCHANGED <<impl, tickets, clock, life, everDeleted, sent, race>>

\* ---- GET /api/tickets
List(c) ==
  /\ Ready(c)
  /\ sent < MaxRequests
  /\ sent' = sent + 1
  /\ Start(c, [Idle EXCEPT !.op = "list", !.pc = "stmt", !.stmts = 1])
  /\ UNCHANGED <<impl, tickets, clock, life, everDeleted, issued>>

\* SQLite runs SELECT * ... ORDER BY created_at DESC
RunSelectAll(c, fails) ==
  LET r == reqs[c] IN
  /\ r.op = "list" /\ r.pc = "stmt"
  /\ LET R == IF fails THEN StoreError(tickets) ELSE SelectAllStmt(tickets)
       IN  /\ tickets' = R.table
           /\ Move(c, [r EXCEPT !.pc = "cb", !.res = Handed(R),
                                !.seen = [NoSeen EXCEPT !.rows = R.rows]])
  /\ UNCHANGED <<impl, clock, life, everDeleted, issued, sent, race>>

ListCallback(c) ==
  LET r == reqs[c] IN
  /\ r.op = "list" /\ r.pc = "cb"
  /\ Move(c, [r EXCEPT !.pc = "done", !.resp = ListResponse(impl, r.res)])
  /\ UNCHANGED <<impl, tickets, clock, life, everDeleted, issued, sent, race>>

\* ---- GET /api/tickets/:id
GetByID(c) ==
  /\ Ready(c)
  /\ sent < MaxRequests
  /\ sent' = sent + 1
  /\ \E id \in Ids :
       Start(c, [Idle EXCEPT !.op = "get", !.pc = "stmt", !.args = [id |-> id],
                            !.id = id, !.stmts = 1])
  /\ UNCHANGED <<impl, tickets, clock, life, everDeleted, issued>>

\* ---- POST /api/tickets/validate
Validate(c) ==
  /\ Ready(c)
  /\ sent < MaxRequests
  /\ sent' = sent + 1
  /\ \E tid \in IdInputs :
       LET r == [Idle EXCEPT !.op = "validate", !.args = [ticket_id |-> tid]]
       IN  IF IdRejects(tid)
           THEN Start(c, [r EXCEPT !.pc = "done", !.resp = IdInvalid])
           ELSE Start(c, [r EXCEPT !.pc = "stmt", !.id = tid, !.stmts = 1])
  /\ UNCHANGED <<impl, tickets, clock, life, everDeleted, issued>>

\* SQLite runs SELECT * FROM tickets WHERE id = ? (GetByID and Validate)
RunSelect(c, fails) ==
  LET r == reqs[c] IN
  /\ r.op \in {"get", "validate"} /\ r.pc = "stmt"
  /\ LET R == IF fails THEN StoreError(tickets) ELSE SelectStmt(tickets, r.id)
       IN  /\ tickets' = R.table
           /\ Move(c, [r EXCEPT !.pc = "cb", !.res = Handed(R), 
                                !.seen = IF fails THEN NoSeen ELSE Seen(r.id, R)])
  /\ UNCHANGED <<impl, clock, life, everDeleted, issued, sent, race>>

GetCallback(c) ==
  LET r == reqs[c] IN
  /\ r.op = "get" /\ r.pc = "cb"
  /\ Move(c, [r EXCEPT !.pc = "done", !.resp = GetResponse(impl, r.res)])
  /\ UNCHANGED <<impl, tickets, clock, life, everDeleted, issued, sent, race>>

ValidateCallback(c) ==
  LET r == reqs[c] IN
  /\ r.op = "validate" /\ r.pc = "cb"
  /\ Move(c, [r EXCEPT !.pc = "done", !.resp = ValidateResponse(impl, r.res)])
  /\ UNCHANGED <<impl, tickets, clock, life, everDeleted, issued, sent, race>>

\* ---- POST /api/tickets/redeem
Redeem(c) ==
  /\ Ready(c)
  /\ sent < MaxRequests
  /\ sent' = sent + 1
  /\ \E tid \in IdInputs :
       LET r == [Idle EXCEPT !.op = "redeem", !.args = [ticket_id |-> tid],
                             !.vouched = Vouched(c, tid)]
       IN  IF IdRejects(tid)
           THEN Start(c, [r EXCEPT !.pc = "done", !.resp = IdInvalid])
           ELSE Start(c, [r EXCEPT !.pc = "stmt", !.id = tid, !.stmts = 1])
  /\ UNCHANGED <<impl, tickets, clock, life, everDeleted, issued>>

\* SQLite runs the UPDATE
RunUpdate(c, fails) ==
  LET r == reqs[c] IN
  /\ r.op = "redeem" /\ r.pc = "stmt"
  /\ LET R == IF fails THEN StoreError(tickets) ELSE UpdateStmt(impl, tickets, r.id)
       IN  /\ tickets' = R.table
           /\ Move(c, [r EXCEPT !.pc = "cb", !.res = Handed(R), 
                                !.seen = IF fails THEN NoSeen ELSE Seen(r.id, R)])
           /\ life' = IF R.changes > 0 THEN [life EXCEPT ![r.id] = "redeemed"] ELSE life
  /\ UNCHANGED <<impl, clock, everDeleted, issued, sent, race>>

RedeemCallback(c) ==
  LET r == reqs[c]
      resp == RedeemResponse(impl, r.res)
  IN
  /\ r.op = "redeem" /\ r.pc = "cb"
  /\ Move(c, [r EXCEPT !.pc = "done", !.resp = resp])
  /\ UNCHANGED <<impl, tickets, clock, life, everDeleted, issued, sent, race>>

\* ---- DELETE /api/tickets/:id
Delete(c) ==
  /\ Ready(c)
  /\ sent < MaxRequests
  /\ sent' = sent + 1
  /\ \E id \in Ids :
       Start(c, [Idle EXCEPT !.op = "delete", !.pc = "stmt", !.args = [id |-> id],
                            !.id = id, !.stmts = 1])
  /\ UNCHANGED <<impl, tickets, clock, life, everDeleted, issued>>

\* SQLite runs the DELETE
RunDelete(c, fails) ==
  LET r == reqs[c] IN
  /\ r.op = "delete" /\ r.pc = "stmt"
  /\ LET R == IF fails THEN StoreError(tickets) ELSE DeleteStmt(tickets, r.id)
       IN  /\ tickets' = R.table
           /\ Move(c, [r EXCEPT !.pc = "cb", !.res = Handed(R), 
                                !.seen = IF fails THEN NoSeen ELSE Seen(r.id, R)])
           /\ life' = IF R.changes > 0 THEN [life EXCEPT ![r.id] = "none"] ELSE life
           /\ everDeleted' = IF R.changes > 0 THEN [everDeleted EXCEPT ![r.id] = TRUE]
                             ELSE everDeleted
  /\ UNCHANGED <<impl, clock, issued, sent, race>>

DeleteCallback(c) ==
  LET r == reqs[c] IN
  /\ r.op = "delete" /\ r.pc = "cb"
  /\ Move(c, [r EXCEPT !.pc = "done", !.resp = DeleteResponse(impl, r.res)])
  /\ UNCHANGED <<impl, tickets, clock, life, everDeleted, issued, sent, race>>

\* ------------------------------------------------------- specification
Next ==
  \/ Tick
  \/ \E c \in Callers : Create(c)
  \/ \E c \in Callers : QrResolve(c)
  \/ \E c \in Callers : QrReject(c)
  \/ \E c \in Callers : RunInsert(c, FALSE)
  \/ \E c \in Callers : CreateCallback(c)
  \/ \E c \in Callers : List(c)
  \/ \E c \in Callers : RunSelectAll(c, FALSE)
  \/ \E c \in Callers : ListCallback(c)
  \/ \E c \in Callers : GetByID(c)
  \/ \E c \in Callers : Validate(c)
  \/ \E c \in Callers : RunSelect(c, FALSE)
  \/ \E c \in Callers : GetCallback(c)
  \/ \E c \in Callers : ValidateCallback(c)
  \/ \E c \in Callers : Redeem(c)
  \/ \E c \in Callers : RunUpdate(c, FALSE)
  \/ \E c \in Callers : RedeemCallback(c)
  \/ \E c \in Callers : Delete(c)
  \/ \E c \in Callers : RunDelete(c, FALSE)
  \/ \E c \in Callers : DeleteCallback(c)

\* every statement runs; only the table's constraints and the QR encoder can fail
Spec == Init /\ [][Next]_vars

\* one caller, and a store that may fail any statement (I/O error, busy database)
FaultyNext ==
  \/ Tick
  \/ Create("c1") \/ QrResolve("c1") \/ QrReject("c1") \/ CreateCallback("c1")
  \/ List("c1") \/ ListCallback("c1")
  \/ GetByID("c1") \/ GetCallback("c1")
  \/ Validate("c1") \/ ValidateCallback("c1")
  \/ Redeem("c1") \/ RedeemCallback("c1")
  \/ Delete("c1") \/ DeleteCallback("c1")
  \/ \E fails \in BOOLEAN : RunInsert("c1", fails)
  \/ \E fails \in BOOLEAN : RunSelectAll("c1", fails)
  \/ \E fails \in BOOLEAN : RunSelect("c1", fails)
  \/ \E fails \in BOOLEAN : RunUpdate("c1", fails)
  \/ \E fails \in BOOLEAN : RunDelete("c1", fails)

FaultySpec == Init /\ [][FaultyNext]_vars

\* the QR encoder settles its promise; SQLite runs a statement handed to it;
\* node delivers the callback of a statement that has run
EncoderCallsBack(c) == QrResolve(c) \/ QrReject(c)
StoreRuns(c) ==
  \E fails \in BOOLEAN :
    \/ RunInsert(c, fails) \/ RunSelectAll(c, fails) \/ RunSelect(c, fails)
    \/ RunUpdate(c, fails) \/ RunDelete(c, fails)
StoreCallsBack(c) ==
  \/ CreateCallback(c) \/ ListCallback(c) \/ GetCallback(c)
  \/ ValidateCallback(c) \/ RedeemCallback(c) \/ DeleteCallback(c)

\* the failing store, with an encoder and a store that eventually call back
LiveSpec ==
  /\ Init /\ [][FaultyNext]_vars
  /\ WF_vars(EncoderCallsBack("c1"))
  /\ WF_vars(StoreRuns("c1"))
  /\ WF_vars(StoreCallsBack("c1"))

\* ================================================================ claims
\* caller c holds the answer to a request `op` whose statement ran
Answered(c, op) == reqs[c].op = op /\ reqs[c].pc = "done" /\ reqs[c].stmts = 1
Has(body, field) == field \in DOMAIN body
NoDuplicateIds(tbl) == \A j, k \in 1..Len(tbl) : tbl[j].id = tbl[k].id => j = k

\* C1: two Redeem requests for the same id of a Valid ticket that are in flight at
\* the same time: exactly one receives the success response, the other the
\* conflict/not-found error, and the stored status ends as Redeemed.
C1_ConcurrentRedeemOneWinner ==
  \A c, d \in Callers :
    ( /\ c # d /\ race = "clean"
      /\ Answered(c, "redeem") /\ Answered(d, "redeem")
      /\ reqs[c].id = reqs[d].id
      /\ reqs[c].seen.status = Valido )
    => /\ reqs[c].resp.status = 200
       /\ reqs[d].resp.status \in {400, 404}
       /\ StatusOf(tickets, reqs[c].id) = Canjeado

\* C2: a Redeem whose UPDATE meets a ticket that is already Redeemed gets the
\* conflict error (400 or 404), never the success response.
C2_RedeemedNeverRedeemsAgain ==
  \A c \in Callers :
    (Answered(c, "redeem") /\ reqs[c].seen.status = Canjeado)
    => reqs[c].resp.status \in {400, 404}

\* C3: a stored status is Valid or Redeemed, a new row starts Valid, and the only
\* step that changes a stored status is a Redeem's UPDATE on that id, from Valid
\* to Redeemed.
C3_StatusStep ==
  \A id \in Ids :
    LET old == StatusOf(tickets, id)
        new == StatusOf(tickets', id)
    IN  /\ new \in {"absent", Valido, Canjeado}
        /\ (old = "absent" /\ new # "absent") => new = Valido
        /\ (old # "absent" /\ new # "absent" /\ new # old)
             => /\ old = Valido /\ new = Canjeado
                /\ \E c \in Callers :
                     /\ reqs[c].op = "redeem" /\ reqs[c].id = id
                     /\ reqs[c].pc = "stmt" /\ reqs'[c].pc = "cb"


\* C3: every step of the service keeps the status rule above.
C3_StatusMonotone == [][C3_StatusStep]_vars

C3_Witness == \E id \in Ids : StatusOf(tickets, id) = Canjeado

\* C4: Validate with a non-empty ticket_id answers 200 with a result decided by
\* the row its SELECT met: none -> valid=false, "not found", no ticket; Redeemed ->
\* valid=false, "already redeemed", the row attached; Valid -> valid=true, the row
\* attached.
C4_ValidateResult ==
  \A c \in Callers :
    Answered(c, "validate") =>
      LET r == reqs[c]
          body == r.resp.body
      IN  /\ r.resp.status = 200
          /\ r.seen.status = "absent" =>
               /\ body.valid = FALSE /\ body.message = "Ticket no encontrado"
               /\ ~Has(body, "ticket")
          /\ r.seen.status = Canjeado =>
               /\ body.valid = FALSE /\ body.message = "Ticket ya fue canjeado"
               /\ Has(body, "ticket") /\ body.ticket = r.seen.rows[1]
          /\ r.seen.status = Valido =>
               /\ body.valid = TRUE /\ body.message = "Ticket valido"
               /\ Has(body, "ticket") /\ body.ticket = r.seen.rows[1]

\* C5: for a created ticket that has not been deleted, a Validate that reads before
\* any Redeem answers valid=true, and one that reads after a successful Redeem
\* answers valid=false with "already redeemed".
C5_ValidateRoundTrip ==
  \A c \in Callers :
    Answered(c, "validate") =>
      LET r == reqs[c]
          body == r.resp.body
      IN  /\ r.seen.life = "fresh" => (r.resp.status = 200 /\ body.valid = TRUE)
          /\ r.seen.life = "redeemed" =>
               /\ r.resp.status = 200 /\ body.valid = FALSE
               /\ body.message = "Ticket ya fue canjeado"

C5_Witness ==
  \E c \in Callers :
    /\ Answered(c, "validate") /\ reqs[c].seen.life = "redeemed"
    /\ reqs[c].id \in issued
    /\ reqs[c].resp.body.valid = FALSE

\* C6: a Create whose buyer_name or event_name is missing or empty is answered 400
\* at once: no QR encoder call, no INSERT, and the step leaves the table as it was.
C6_RejectedCreateStep ==
  \A c \in Callers :
    ( /\ \/ reqs'[c].pc # reqs[c].pc
         \/ reqs'[c].op # reqs[c].op
         \/ reqs'[c].args # reqs[c].args
      /\ reqs'[c].op = "create"
      /\ Falsy(reqs'[c].args.buyer_name) \/ Falsy(reqs'[c].args.event_name) )
    => /\ reqs'[c].pc = "done" /\ reqs'[c].resp.status = 400
       /\ reqs'[c].qr_calls = 0 /\ reqs'[c].stmts = 0
       /\ tickets' = tickets


\* C6: every step that answers a Create with a missing or empty required field
\* is the 400 answer, with no QR call, no INSERT and the table unchanged.
C6_RejectedCreateWritesNothing == [][C6_RejectedCreateStep]_vars

C6_Witness ==
  \E c \in Callers :
    /\ reqs[c].op = "create" /\ reqs[c].pc = "done"
    /\ reqs[c].args.buyer_name = "Ana" /\ reqs[c].args.event_name = ""
    /\ reqs[c].resp.status = 400

\* C7 as claimed: Create adds one Valid row when it succeeds and none otherwise; an
\* id is sent only after its INSERT succeeded; a failed QR encoding issues no
\* INSERT; a failed INSERT is answered 500 with no id and no row has that id.
C7_Parts(c, insert_failed_leaves) ==
  LET r == reqs[c] IN
  /\ (r.op = "create" /\ Has(r.resp.body, "id")) =>
       /\ r.pc = "done" /\ r.resp.status = 200
       /\ r.resp.body.id = r.id /\ r.stmts = 1 /\ ~r.res.err
  /\ (r.op = "create" /\ r.pc = "done") =>
       /\ r.resp.status = 200 =>
            /\ r.seen.delta = 1 /\ r.seen.status = "absent" /\ r.seen.after = Valido
            /\ r.seen.others_same
       /\ r.resp.status # 200 => (r.seen.delta = 0 /\ r.seen.same)
       /\ r.resp = CreateCaught => r.stmts = 0
       /\ (r.stmts = 1 /\ r.res.err) =>
            /\ r.resp.status = 500 /\ ~Has(r.resp.body, "id")
            /\ insert_failed_leaves

C8_Parts(c, reissue_allowed) ==
  LET r == reqs[c] IN
  (r.op = "create" /\ r.pc = "done" /\ r.stmts = 1) =>
    /\ r.seen.reissued => reissue_allowed
    /\ r.seen.status # "absent" => (r.seen.same /\ r.resp.status = 500)

C9_RedeemOnlyValid ==
  \A c \in Callers :
    (reqs[c].op = "redeem" /\ reqs[c].pc = "done") =>
      LET r == reqs[c] IN
      /\ r.resp.status = 200 => (r.stmts = 1 /\ r.seen.status = Valido)
      /\ (r.stmts = 0 \/ r.seen.status \in {"absent", Canjeado}) =>
           (r.resp.status \in {400, 404} /\ r.seen.same)

\* what Delete does to the table, and how it answers
C10_DeleteEffect(c) ==
  LET r == reqs[c] IN
  Answered(c, "delete") =>
    /\ r.seen.status # "absent" =>
         (r.resp.status = 200 /\ r.seen.delta = -1 /\ r.seen.after = "absent")
    /\ r.seen.status = "absent" => (r.resp.status = 404 /\ r.seen.same)
    /\ r.seen.others_same

\* how the requests on an id are answered when `gone` holds of what they met
C10_AfterDelete(c, gone) ==
  LET r == reqs[c] IN
  (r.pc = "done" /\ r.stmts = 1 /\ r.op \in {"get", "validate", "redeem", "delete"} /\ gone) =>
    /\ r.op = "get" => r.resp.status = 404
    /\ r.op = "validate" =>
         (r.resp.body.valid = FALSE /\ r.resp.body.message = "Ticket no encontrado")
    /\ r.op \in {"redeem", "delete"} => r.resp.status \in {400, 404}

Runs(c) == reqs[c].pc = "stmt" /\ reqs'[c].pc = "cb"

\* C11: the statement of a List, GetByID or Validate leaves the table as it was,
\* whatever the id names (a stored row, no row, a redeemed ticket); the table
\* changes only in a step that runs the statement of a Create, Redeem or Delete.
C11_ReadStep ==
  /\ \A c \in Callers :
       (Runs(c) /\ reqs[c].op \in {"list", "get", "validate"}) => tickets' = tickets
  /\ tickets' # tickets =>
       \E c \in Callers : Runs(c) /\ reqs[c].op \in {"create", "redeem", "delete"}

\* two Validate answers for one id whose SELECTs met the same stored row (no write
\* in between) are the same answer
C11_SameAnswer ==
  \A c, d \in Callers :
    ( /\ Answered(c, "validate") /\ Answered(d, "validate")
      /\ reqs[c].id = reqs[d].id /\ reqs[c].seen.rows = reqs[d].seen.rows )
    => reqs[c].resp = reqs[d].resp

\* C11: Validate, GetByID and List never change the store, and Validate repeated
\* with no write in between returns the same result each time.
C11_ReadsChangeNothing == [][C11_ReadStep]_vars /\ []C11_SameAnswer

C11_Witness ==
  \E c, d \in Callers :
    /\ c # d /\ Answered(c, "validate") /\ Answered(d, "validate")
    /\ reqs[c].id = reqs[d].id /\ reqs[c].seen.status = Canjeado
    /\ reqs[d].seen.status = Canjeado /\ reqs[c].resp = reqs[d].resp
    /\ StatusOf(tickets, reqs[c].id) = Canjeado

\* the callback of caller c's request sends the response in this step
Answers(c) == reqs[c].pc = "cb" /\ reqs'[c].pc = "done"

\* rows holds every row of tbl once and nothing else
SameRows(rows, tbl) ==
  /\ Len(rows) = Len(tbl)
  /\ \A k \in 1..Len(tbl) : \E j \in 1..Len(rows) : rows[j] = tbl[k]
  /\ \A j \in 1..Len(rows) : \E k \in 1..Len(tbl) : rows[j] = tbl[k]

\* created_at never increases from one element to the next
NonIncreasing(rows) ==
  \A j \in 1..(Len(rows) - 1) : rows[j].created_at.at >= rows[j + 1].created_at.at

\* C12: the SELECT of a List hands over exactly the rows stored when it runs (each
\* once; none that was deleted, none whose INSERT has not run yet), created_at
\* never increasing along the sequence; the callback answers 200 with that
\* sequence, the empty sequence when the table was empty.
C12_ListStep ==
  \A c \in Callers :
    reqs[c].op = "list" =>
      /\ Runs(c) =>
           /\ ~reqs'[c].res.err
           /\ SameRows(reqs'[c].res.rows, tickets)
           /\ NonIncreasing(reqs'[c].res.rows)
           /\ \A d \in Callers :
                (reqs[d].op = "create" /\ reqs[d].pc \in {"qr", "stmt"}
                   /\ StatusOf(tickets, reqs[d].id) = "absent")
                => \A j \in 1..Len(reqs'[c].res.rows) : reqs'[c].res.rows[j].id # reqs[d].id
      /\ Answers(c) =>
           /\ reqs'[c].resp.status = 200
           /\ reqs'[c].resp.body = reqs[c].res.rows
           /\ reqs[c].seen.rows = reqs[c].res.rows

\* C12: every step of a List request keeps the rule above.
C12_ListExact == [][C12_ListStep]_vars

C12_Witness ==
  \E c \in Callers :
    /\ reqs[c].op = "list" /\ reqs[c].pc = "done" /\ reqs[c].resp.status = 200
    /\ Len(reqs[c].resp.body) = 2 /\ Len(tickets) = 2
    /\ reqs[c].resp.body[1] = tickets[2]
    /\ reqs[c].resp.body[1].created_at.at > reqs[c].resp.body[2].created_at.at

\* the class of a response: success, refused (validation, not found, conflict) or
\* store error; message texts and timestamp formats are left out of it
Outcome(resp) ==
  IF resp.status = 200 THEN "success"
  ELSE IF resp.status \in {400, 404} THEN "refused" ELSE "error"

\* C13: on the table as it stands, every request gets the same class of response
\* from src/index.js and from src/server/index.js (for Validate also the same
\* valid flag and the same ticket attachment) and leaves both with the same rows
\* and statuses; so, fed the same requests from the same table, the two never part.
C13_ImplsEquivalent ==
  /\ Outcome(ListResponse("root", SelectAllStmt(tickets)))
       = Outcome(ListResponse("server", SelectAllStmt(tickets)))
  /\ \A args \in CreateBodies :
       CreateRejects(args.buyer_name, args.event_name)
         => Outcome(CreateInvalid("root")) = Outcome(CreateInvalid("server"))
  /\ \A id \in Ids :
       LET sel == SelectStmt(tickets, id)
           del == DeleteStmt(tickets, id)
           upR == UpdateStmt("root", tickets, id)
           upS == UpdateStmt("server", tickets, id)
           vaR == ValidateResponse("root", sel)
           vaS == ValidateResponse("server", sel)
       IN  /\ Outcome(GetResponse("root", sel)) = Outcome(GetResponse("server", sel))
           /\ Outcome(vaR) = Outcome(vaS)
           /\ vaR.body.valid = vaS.body.valid
           /\ Has(vaR.body, "ticket") = Has(vaS.body, "ticket")
           /\ upR.table = upS.table
           /\ Outcome(RedeemResponse("root", upR)) = Outcome(RedeemResponse("server", upS))
           /\ Outcome(DeleteResponse("root", del)) = Outcome(DeleteResponse("server", del))
           /\ \A args \in CreateBodies :
                ~CreateRejects(args.buyer_name, args.event_name) =>
                  LET inR == InsertStmt("root", tickets, id, args.buyer_name, args.buyer_email,
                                        args.event_name, toDataURL(id), clock)
                      inS == InsertStmt("server", tickets, id, args.buyer_name, args.buyer_email,
                                        args.event_name, toDataURL(id), clock)
                  IN  /\ inR.table = inS.table
                      /\ Outcome(CreateResponse("root", inR, id, args, toDataURL(id), clock))
                           = Outcome(CreateResponse("server", inS, id, args, toDataURL(id), clock))

\* C14: a row that is stored before and after a step has the same id, buyer_name,
\* buyer_email, event_name, created_at and qr_code after it as before; a Redeem
\* whose UPDATE changed a row changed the status of the row with its id and
\* nothing else: every other field of that row and every other row are as before.
C14_FrameStep ==
  /\ \A id \in Ids :
       LET old == RowsOf(tickets, id)
           new == RowsOf(tickets', id)
       IN  (old # <<>> /\ new # <<>>) =>
             /\ Len(old) = 1 /\ Len(new) = 1
             /\ [new[1] EXCEPT !.status = old[1].status] = old[1]
  /\ \A c \in Callers :
       (Runs(c) /\ reqs[c].op = "redeem" /\ reqs'[c].res.changes > 0) =>
         /\ Len(tickets') = Len(tickets)
         /\ RowsNotOf(tickets', reqs[c].id) = RowsNotOf(tickets, reqs[c].id)
         /\ \A k \in 1..Len(tickets) :
              /\ tickets[k].id # reqs[c].id => tickets'[k] = tickets[k]
              /\ tickets[k].id = reqs[c].id =>
                   tickets'[k] = [tickets[k] EXCEPT !.status = Canjeado]

\* C14: every step of the service keeps the rule above.
C14_OnlyStatusChanges == [][C14_FrameStep]_vars

C14_Witness ==
  \E c \in Callers :
    /\ Answered(c, "redeem") /\ reqs[c].resp.status = 200
    /\ Len(tickets) = 2
    /\ StatusOf(tickets, reqs[c].id) = Canjeado
    /\ \E id \in Ids : StatusOf(tickets, id) = Valido

\* C15: the record a successful Create returned and the record a GetByID of the
\* returned id returns, no write to that id having happened in between (the id
\* never deleted, the ticket not redeemed when the SELECT ran), are equal in every
\* field: id, buyer_name, buyer_email, event_name, status, qr_code, created_at.
C15_CreateReturnsStored ==
  \A c, d \in Callers :
    ( /\ c # d
      /\ reqs[d].op = "create" /\ reqs[d].pc = "done" /\ reqs[d].resp.status = 200
      /\ Answered(c, "get") /\ reqs[c].id = reqs[d].resp.body.id
      /\ reqs[c].resp.status = 200
      /\ reqs[c].seen.life = "fresh" /\ ~reqs[c].seen.deleted )
    => /\ reqs[c].resp.body = reqs[d].resp.body
       /\ reqs[c].resp.body.created_at = reqs[d].resp.body.created_at

\* caller c sends a request in this step
Sends(c) == sent' = sent + 1 /\ reqs'[c] # reqs[c]

\* one response per request, at most one statement and one QR encoder call
C16_Step ==
  \A c \in Callers :
    LET r == reqs[c]
        n == reqs'[c]
    IN  \* no response while the request is in flight, one when it completes
        /\ n.pc \in {"qr", "stmt", "cb"} => n.resp = NoResponse
        /\ n.pc = "done" => n.resp # NoResponse /\ n.resp.status \in {200, 400, 404, 500}
        \* the response, once sent, is not sent again or changed
        /\ (r.pc = "done" /\ ~Sends(c)) => n = r
        \* a request refused by validation is answered 400 with no statement, no QR call
        /\ (Sends(c) /\ n.pc = "done") =>
             (n.resp.status = 400 /\ n.stmts = 0 /\ n.qr_calls = 0)
        \* at most one statement, run once; one QR call at most, by Create only
        /\ n.stmts \in {0, 1} /\ n.qr_calls \in {0, 1}
        /\ n.qr_calls = 1 => n.op = "create"
        /\ (~Sends(c) /\ r.pc # "idle") => (n.stmts >= r.stmts /\ n.qr_calls = r.qr_calls)
        /\ Runs(c) => (r.stmts = 1 /\ r.res = NoResult)
        /\ (r.pc = "cb" /\ ~Answers(c)) => n = r
        \* store and encoder failures are answered 500
        /\ (Answers(c) /\ r.res.err) => n.resp.status = 500
        /\ (r.pc = "qr" /\ n.pc = "done") => (n.resp.status = 500 /\ n.stmts = 0)

\* C16: every request gets exactly one response, on every path (validation
\* failure, store error, QR encoder error), provided the store and the encoder
\* call back; it issues at most one statement (none when refused with 400 by
\* validation) and, for Create, at most one QR encoder call.
C16_OneResponse ==
  /\ [][C16_Step]_vars
  /\ \A c \in Callers : InFlight(c) ~> (reqs[c].pc = "done" /\ reqs[c].resp # NoResponse)

C16_Witness ==
  /\ reqs["c1"].op = "redeem" /\ reqs["c1"].pc = "done"
  /\ reqs["c1"].stmts = 1 /\ reqs["c1"].res.err
  /\ reqs["c1"].resp.status = 500
  /\ sent = MaxRequests

\* C17: a Redeem and a Delete of one id in flight at the same time, no other
\* request sent meanwhile, the ticket stored and Valid when the first of the two
\* statements ran: Delete is answered success and the row is gone at the end;
\* Redeem is answered success exactly when its UPDATE ran before the DELETE (it
\* met the row), and refused (400 or 404) when the row was already deleted.
C17_RedeemVsDelete ==
  \A c, d \in Callers :
    ( /\ c # d /\ race = "clean"
      /\ Answered(c, "redeem") /\ Answered(d, "delete")
      /\ reqs[c].id = reqs[d].id
      /\ reqs[c].seen.status = Valido \/ reqs[d].seen.status = Valido )
    => /\ reqs[d].resp.status = 200
       /\ StatusOf(tickets, reqs[d].id) = "absent"
       /\ reqs[c].seen.status \in {Valido, "absent"}
       /\ reqs[c].seen.status = Valido =>
            (reqs[c].resp.status = 200 /\ reqs[d].seen.status = Canjeado)
       /\ reqs[c].seen.status = "absent" =>
            (reqs[c].resp.status \in {400, 404} /\ reqs[d].seen.status = Valido)

C17_Witness ==
  \E c, d \in Callers :
    /\ c # d /\ race = "clean"
    /\ Answered(c, "redeem") /\ Answered(d, "delete")
    /\ reqs[c].id = reqs[d].id
    /\ reqs[d].seen.status = Valido /\ reqs[d].resp.status = 200
    /\ reqs[c].seen.status = "absent" /\ reqs[c].resp.status \in {400, 404}

\* C18: a Redeem sent by a caller whose Validate of that id had just answered
\* valid = true is refused (400 or 404) when its UPDATE finds that another
\* caller's Redeem or Delete got there first (the ticket redeemed or gone); and
\* two callers who were each told valid = true for one id are never both
\* answered success by Redeem.
C18_ValidateThenRedeem ==
  /\ \A c \in Callers :
       ( /\ Answered(c, "redeem") /\ reqs[c].vouched
         /\ reqs[c].seen.status \in {Canjeado, "absent"} )
       => reqs[c].resp.status \in {400, 404}
  /\ \A c, d \in Callers :
       ( /\ c # d /\ Answered(c, "redeem") /\ Answered(d, "redeem")
         /\ reqs[c].vouched /\ reqs[d].vouched /\ reqs[c].id = reqs[d].id )
       => ~(reqs[c].resp.status = 200 /\ reqs[d].resp.status = 200)

====
